---- MODULE Spec2Model ----
(***************************************************************************)
(* Model of umi_tools/Utilities.py: the extended option parser             *)
(* (AppendCommaOption on top of optparse) and the experiment lifecycle     *)
(* Start / Stop with its stream redirection, header / footer output,       *)
(* logging set-up and benchmark ledger.                                    *)
(*                                                                         *)
(* Strings are sequences of symbols.  A symbol is a single character       *)
(* (",", "a", "1", ...) or stands for a run of characters that contains no *)
(* comma and no digit ("None", "stderr", "all", "input.txt", "--method").  *)
(* Python values are records [tag, s, i, l] so that values of different    *)
(* Python types can be compared.                                           *)
(***************************************************************************)
EXTENDS Integers, Sequences, FiniteSets, TLC

VARIABLES
    pc,                \* position of the script: NotStarted, Running, ...
    sys_argv,          \* sys.argv, also the argv handed to Start
    quiet,             \* the script's call of Start: its quiet argument
    add_pipe_options,  \* the script's call of Start: its add_pipe_options argument
    parser_defaults,   \* the defaults of the parser the script hands to Start
    unopenable,        \* file system: the paths open() fails on
    files,             \* every stream object: the three process streams, then opened files
    global_options,    \* module global: the options record
    global_args,       \* module global: the positional arguments
    global_id,         \* module global: the job identifier
    global_benchmark,  \* module global: label -> accumulated seconds
    written,           \* what was written to the streams, in order
    logging_root,      \* the root logger as logging.basicConfig / setFormatter leave it
    random_seeded,     \* the seed random.seed was last called with
    timeit_rows,       \* content of the benchmark-ledger files, path -> rows
    cycles,            \* number of calls of Start so far
    equiv,             \* a token list of an append option and the parses of its spellings
    formatted          \* a log record and what the formatters return for it

vars == << pc, sys_argv, quiet, add_pipe_options, parser_defaults, unopenable, files, global_options, global_args, global_id,
           global_benchmark, written, logging_root, random_seeded, timeit_rows,
           cycles, equiv, formatted >>

-----------------------------------------------------------------------------
(* Python values *)

None == [tag |-> "None", s |-> << >>, i |-> 0, l |-> << >>]

Str(s) == [tag |-> "str", s |-> s, i |-> 0, l |-> << >>]

IntV(i) == [tag |-> "int", s |-> << >>, i |-> i, l |-> << >>]

BoolV(b) == [tag |-> "bool", s |-> << >>, i |-> IF b THEN 1 ELSE 0, l |-> << >>]

\* a stream object: i is its index in files
File(i) == [tag |-> "file", s |-> << >>, i |-> i, l |-> << >>]

List(l) == [tag |-> "list", s |-> << >>, i |-> 0, l |-> l]

\* Python truth value of v
Truthy(v) ==
    CASE v.tag = "None" -> FALSE
      [] v.tag = "str" -> v.s # << >>
      [] v.tag = "int" -> v.i # 0
      [] v.tag = "bool" -> v.i = 1
      [] v.tag = "list" -> v.l # << >>
      [] OTHER -> TRUE

\* the empty mapping
EmptyMap == [d \in {} |-> None]

\* the three process streams sys.stdin, sys.stdout, sys.stderr
sys_stdin == File(1)

sys_stdout == File(2)

sys_stderr == File(3)

-----------------------------------------------------------------------------
(* str.split(","), "," in value, int() *)

RECURSIVE SplitAcc(_, _, _)
SplitAcc(s, cur, acc) ==
    IF s = << >> THEN Append(acc, cur)
    ELSE IF Head(s) = "," THEN SplitAcc(Tail(s), << >>, Append(acc, cur))
    ELSE SplitAcc(Tail(s), Append(cur, Head(s)), acc)

\* value.split(","): the pieces between the commas, empty pieces included
split(s) == SplitAcc(s, << >>, << >>)

\* "," in value
HasComma(s) == \E k \in 1..Len(s) : s[k] = ","

Digits == {"0", "1", "2", "3", "4", "5", "6", "7", "8", "9"}

DigitVal(c) ==
    CASE c = "0" -> 0 [] c = "1" -> 1 [] c = "2" -> 2 [] c = "3" -> 3 [] c = "4" -> 4
      [] c = "5" -> 5 [] c = "6" -> 6 [] c = "7" -> 7 [] c = "8" -> 8 [] OTHER -> 9

RECURSIVE NumAcc(_, _, _)
NumAcc(s, radix, acc) ==
    IF s = << >> THEN acc
    ELSE NumAcc(Tail(s), radix, acc * radix + DigitVal(Head(s)))

\* int(val, radix) of optparse's _parse_num: radix 8 after a leading "0"
ParseInt(s) ==
    LET octal == s # << >> /\ Head(s) = "0"
        body == IF octal THEN (IF Tail(s) = << >> THEN << "0" >> ELSE Tail(s)) ELSE s
        radix == IF octal THEN 8 ELSE 10
        good == /\ body # << >>
                /\ \A k \in 1..Len(body) :
                      body[k] \in Digits /\ DigitVal(body[k]) < radix
    IN  IF good THEN [ok |-> TRUE, v |-> IntV(NumAcc(body, radix, 0))]
        ELSE [ok |-> FALSE, v |-> None]

-----------------------------------------------------------------------------
(* The command line.  An element of argv is "--flag=text" (eq), "--flag"   *)
(* (flag alone) or a plain string (flag = "").                             *)

Opt(flag, text) == [flag |-> flag, eq |-> TRUE, text |-> text]

Flag(flag) == [flag |-> flag, eq |-> FALSE, text |-> << >>]

Plain(text) == [flag |-> "", eq |-> FALSE, text |-> text]

\* the string an element of argv is
Raw(arg) ==
    IF arg.flag = "" THEN arg.text
    ELSE IF arg.eq THEN << arg.flag, "=" >> \o arg.text
    ELSE << arg.flag >>

-----------------------------------------------------------------------------
(* The options: the script's own, and the ones Start registers *)

Option(dest, action, type) == [dest |-> dest, action |-> action, type |-> type]

\* the options of the script's parser: two accumulate options, one per type
ScriptOptions ==
    [f \in {"--method", "--n"} |->
        IF f = "--method" THEN Option("method", "append", "string")
        ELSE Option("n", "append", "int")]

\* the options Start adds in the groups "Script timing options" and "Common options"
CommonOptions ==
    [f \in {"--timeit", "--timeit-name", "--timeit-header", "--random-seed", "--verbose"} |->
        CASE f = "--timeit" -> Option("timeit_file", "store", "string")
          [] f = "--timeit-name" -> Option("timeit_name", "store", "string")
          [] f = "--timeit-header" -> Option("timeit_header", "store_true", "none")
          [] f = "--random-seed" -> Option("random_seed", "store", "int")
          [] OTHER -> Option("loglevel", "store", "int")]

\* the options Start adds when add_pipe_options is set
PipeOptions ==
    [f \in {"--stdin", "--log", "--error", "--stdout", "--log2stderr"} |->
        CASE f = "--stdin" -> Option("stdin", "store", "string")
          [] f = "--log" -> Option("stdlog", "store", "string")
          [] f = "--error" -> Option("stderr", "store", "string")
          [] f = "--stdout" -> Option("stdout", "store", "string")
          [] OTHER -> Option("log2stderr", "store_true", "none")]

\* the parser's long options once Start has registered its groups
LongOpt(pipe) ==
    IF pipe THEN ScriptOptions @@ CommonOptions @@ PipeOptions
    ELSE ScriptOptions @@ CommonOptions

\* the defaults add_option leaves for the script's own options
ScriptDefaults == [d \in {"method", "n"} |-> None]

\* the defaults Start installs with set_defaults (add_option sets the rest to None)
StartDefaults(q, pipe) ==
    LET common == [d \in {"loglevel", "timeit_file", "timeit_name", "timeit_header",
                          "random_seed", "short_help"} |->
                     CASE d = "loglevel" -> IF q THEN IntV(0) ELSE IntV(1)
                       [] d = "timeit_name" -> Str(<< "all" >>)
                       [] OTHER -> None]
        piped == [d \in {"stderr", "stdout", "stdlog", "stdin", "log2stderr"} |->
                     CASE d = "stderr" -> sys_stderr
                       [] d = "stdout" -> sys_stdout
                       [] d = "stdlog" -> sys_stdout
                       [] d = "stdin" -> sys_stdin
                       [] OTHER -> BoolV(FALSE)]
    IN  IF pipe THEN common @@ piped ELSE common

\* the defaults of Start put over the caller's
ParserDefaults_start_wins(defaults, q, pipe) ==
    StartDefaults(q, pipe) @@ defaults

\* parser.defaults.update(user_defaults): the caller's defaults win
ParserDefaults(defaults, q, pipe) ==
    defaults @@ StartDefaults(q, pipe)

-----------------------------------------------------------------------------
(* AppendCommaOption *)

\* optparse Option.check_value: the type's checker, none for "string"
check_value(option, s) ==
    IF option.type = "int" THEN ParseInt(s) ELSE [ok |-> TRUE, v |-> Str(s)]

\* [v for v in pieces if v != ""]
NonEmpty(pieces) == SelectSeq(pieces, LAMBDA v : v # << >>)

\* convert_value without the per-token check_value of a comma list
convert_value_unchecked(option, value) ==
    IF value.tag = "None" THEN [ok |-> TRUE, v |-> None]
    ELSE IF option.action = "append" /\ HasComma(value.s)
    THEN [ok |-> TRUE,
          v |-> List([k \in 1..Len(NonEmpty(split(value.s))) |->
                         Str(NonEmpty(split(value.s))[k])])]
    ELSE IF option.action = "append" /\ value.s = << >> THEN [ok |-> TRUE, v |-> value]
    ELSE check_value(option, value.s)

\* convert_value keeping the empty pieces of a comma list
convert_value_keep_empty(option, value) ==
    IF value.tag = "None" THEN [ok |-> TRUE, v |-> None]
    ELSE IF option.action = "append" /\ HasComma(value.s)
    THEN LET pieces == split(value.s)
             checked == [k \in 1..Len(pieces) |-> check_value(option, pieces[k])]
         IN  IF \A k \in 1..Len(pieces) : checked[k].ok
             THEN [ok |-> TRUE, v |-> List([k \in 1..Len(pieces) |-> checked[k].v])]
             ELSE [ok |-> FALSE, v |-> None]
    ELSE IF option.action = "append" /\ value.s = << >> THEN [ok |-> TRUE, v |-> value]
    ELSE check_value(option, value.s)

\* AppendCommaOption.convert_value, for the options' nargs of 1; ok is FALSE
\* where check_value raises OptionValueError
convert_value(option, value) ==
    IF value.tag = "None" THEN [ok |-> TRUE, v |-> None]
    ELSE IF option.action = "append"
    THEN IF HasComma(value.s)
         THEN LET pieces == NonEmpty(split(value.s))
                  checked == [k \in 1..Len(pieces) |-> check_value(option, pieces[k])]
              IN  IF \A k \in 1..Len(pieces) : checked[k].ok
                  THEN [ok |-> TRUE, v |-> List([k \in 1..Len(pieces) |-> checked[k].v])]
                  ELSE [ok |-> FALSE, v |-> None]
         ELSE IF value.s # << >> THEN check_value(option, value.s)
         ELSE [ok |-> TRUE, v |-> value]
    ELSE check_value(option, value.s)

\* setattr(values, dest, v)
SetAttr(values, dest, v) ==
    [d \in DOMAIN values \cup {dest} |-> IF d = dest THEN v ELSE values[d]]

\* values.ensure_value(dest, []): the list to add to
ensure_value(values, dest) ==
    IF dest \notin DOMAIN values \/ values[dest].tag = "None" THEN << >>
    ELSE values[dest].l

\* take_action that appends a converted comma list as one element
take_action_nested(action, dest, value, values) ==
    CASE action = "append" ->
            SetAttr(values, dest, List(Append(ensure_value(values, dest), value)))
      [] action = "store_true" -> SetAttr(values, dest, BoolV(TRUE))
      [] OTHER -> SetAttr(values, dest, value)

\* AppendCommaOption.take_action, and optparse's for store, store_true and append
take_action(action, dest, value, values) ==
    IF action = "append" /\ value.tag = "list"
    THEN SetAttr(values, dest, List(ensure_value(values, dest) \o value.l))
    ELSE CASE action = "append" ->
                 SetAttr(values, dest, List(Append(ensure_value(values, dest), value)))
           [] action = "store_true" -> SetAttr(values, dest, BoolV(TRUE))
           [] OTHER -> SetAttr(values, dest, value)

-----------------------------------------------------------------------------
(* optparse.OptionParser.parse_args *)

\* the option whose dest is d, for the defaults that are strings
OptionOfDest(long_opt, d) == CHOOSE f \in DOMAIN long_opt : long_opt[f].dest = d

HasOption(long_opt, d) == \E f \in DOMAIN long_opt : long_opt[f].dest = d

\* OptionParser.get_default_values: a default that is a string goes through
\* check_value of its option
get_default_values(long_opt, defaults) ==
    LET conv(d) ==
            IF defaults[d].tag = "str" /\ HasOption(long_opt, d)
            THEN check_value(long_opt[OptionOfDest(long_opt, d)], defaults[d].s)
            ELSE [ok |-> TRUE, v |-> defaults[d]]
    IN  [ok |-> \A d \in DOMAIN defaults : conv(d).ok,
         values |-> [d \in DOMAIN defaults |-> conv(d).v]]

\* _process_long_opt and Option.process for the first element arg of rargs;
\* rest is what follows it
process_long_opt(long_opt, arg, rest, values) ==
    LET failed == [status |-> "error", values |-> values, rest |-> rest]
    IN  IF arg.flag \notin DOMAIN long_opt THEN failed
        ELSE LET option == long_opt[arg.flag]
                 takes_value == option.type # "none"
                 missing == takes_value /\ ~arg.eq /\ rest = << >>
                 value == IF ~takes_value THEN None
                          ELSE IF arg.eq THEN Str(arg.text)
                          ELSE Str(Raw(Head(rest)))
                 after == IF takes_value /\ ~arg.eq THEN Tail(rest) ELSE rest
             IN  IF missing \/ (~takes_value /\ arg.eq) THEN failed
                 ELSE LET converted == convert_value(option, value)
                      IN  IF ~converted.ok THEN failed
                          ELSE [status |-> "ok",
                                values |-> take_action(option.action, option.dest,
                                                       converted.v, values),
                                rest |-> after]

RECURSIVE process_args(_, _, _, _)
\* _process_args with interspersed arguments allowed: largs are the positionals so far
process_args(long_opt, rargs, largs, values) ==
    IF rargs = << >> THEN [status |-> "ok", values |-> values, args |-> largs]
    ELSE LET arg == Head(rargs)
         IN  IF arg.flag = "--" /\ ~arg.eq
             THEN [status |-> "ok", values |-> values,
                   args |-> largs \o [k \in 1..(Len(rargs) - 1) |-> Raw(rargs[k + 1])]]
             ELSE IF arg.flag = ""
             THEN process_args(long_opt, Tail(rargs), Append(largs, arg.text), values)
             ELSE LET r == process_long_opt(long_opt, arg, Tail(rargs), values)
                  IN  IF r.status # "ok"
                      THEN [status |-> "error", values |-> EmptyMap, args |-> << >>]
                      ELSE process_args(long_opt, r.rest, largs, r.values)

\* parser.parse_args(args): status "error" is parser.error (usage, exit status 2),
\* which returns no values
parse_args(long_opt, defaults, args) ==
    LET d == get_default_values(long_opt, defaults)
    IN  IF ~d.ok THEN [status |-> "OptionValueError", values |-> EmptyMap, args |-> << >>]
        ELSE process_args(long_opt, args, << >>, d.values)

-----------------------------------------------------------------------------
(* Streams *)

Stream(path, mode) == [path |-> path, mode |-> mode, open |-> TRUE,
                       gzip |-> path # << >> /\ path[Len(path)] \in {".gz", ".z", ".GZ", ".Z"}]

\* the process's stdin, stdout and stderr: files[1], files[2], files[3]
ProcessStreams == << Stream(<< "<stdin>" >>, "r"), Stream(<< "<stdout>" >>, "w"),
                     Stream(<< "<stderr>" >>, "w") >>

\* openFile(filename, mode): the stream is added to fs; ok is FALSE where open raises
openFile(fs, filename, mode) ==
    IF filename = << >> \/ filename \in unopenable
    THEN [ok |-> FALSE, files |-> fs]
    ELSE [ok |-> TRUE, files |-> Append(fs, Stream(filename, mode))]

\* OpenInto that swallows the failure of open and keeps the path in the field
OpenInto_swallow(st, dest, mode) ==
    IF st.opts[dest].tag # "str" THEN [st EXCEPT !.err = "AttributeError"]
    ELSE LET r == openFile(st.files, st.opts[dest].s, mode)
         IN  IF ~r.ok THEN st
             ELSE [opts |-> SetAttr(st.opts, dest, File(Len(r.files))),
                   files |-> r.files, err |-> ""]

\* global_options.<dest> = openFile(global_options.<dest>, mode)
OpenInto(st, dest, mode) ==
    IF st.opts[dest].tag # "str" THEN [st EXCEPT !.err = "AttributeError"]
    ELSE LET r == openFile(st.files, st.opts[dest].s, mode)
         IN  IF ~r.ok THEN [st EXCEPT !.err = "IOError"]
             ELSE [opts |-> SetAttr(st.opts, dest, File(Len(r.files))),
                   files |-> r.files, err |-> ""]

\* the stream set-up of Start, in the order of the code: err names the exception
\* that ends it, opts and files are as the exception leaves them
ResolveStreams(opts, fs, pipe) ==
    LET s0 == [opts |-> opts, files |-> fs, err |-> ""]
        s1 == IF s0.opts["stdout"] # sys_stdout THEN OpenInto(s0, "stdout", "w") ELSE s0
        s2 == IF s1.err # "" THEN s1
              ELSE IF s1.opts["stderr"] # sys_stderr
              THEN IF s1.opts["stderr"] = Str(<< "stderr" >>) THEN s1
                   ELSE OpenInto(s1, "stderr", "w")
              ELSE s1
        s3 == IF s2.err # "" THEN s2
              ELSE IF s2.opts["stdlog"] # sys_stdout THEN OpenInto(s2, "stdlog", "a")
              ELSE IF Truthy(s2.opts["log2stderr"])
              THEN [s2 EXCEPT !.opts = SetAttr(s2.opts, "stdlog", s2.opts["stderr"])]
              ELSE s2
        s4 == IF s3.err # "" THEN s3
              ELSE IF s3.opts["stdin"] # sys_stdin THEN OpenInto(s3, "stdin", "r")
              ELSE s3
        n1 == SetAttr(SetAttr(SetAttr(opts, "stderr", sys_stderr), "stdout", sys_stdout),
                      "stdin", sys_stdin)
    IN  IF pipe THEN s4
        ELSE IF "log2stderr" \notin DOMAIN opts
        THEN [opts |-> n1, files |-> fs, err |-> "AttributeError"]
        ELSE [opts |-> SetAttr(n1, "stdlog",
                               IF Truthy(opts["log2stderr"]) THEN sys_stderr ELSE sys_stdout),
              files |-> fs, err |-> ""]

\* stream.write: "" where it succeeds, else the exception
WriteError(fs, stream) ==
    IF stream.tag # "file" THEN "AttributeError"
    ELSE IF ~fs[stream.i].open THEN "ValueError"
    ELSE ""

\* stream.close()
Close(fs, stream) == [fs EXCEPT ![stream.i].open = FALSE]

-----------------------------------------------------------------------------
(* Header, parameters, footer *)

JobIds == {"e1c16e80", "5b0f2a97"}

Entry(stream, kind, id) == [stream |-> stream.i, kind |-> kind, id |-> id]

\* getHeader(): the command line, the start time, the host and the job identifier
getHeader == [kind |-> "header", id |-> global_id]

\* getParams(options): one line per option, sorted by name
getParams == [kind |-> "params", id |-> ""]

\* getFooter with an identifier generated anew
getFooter_fresh_id == [kind |-> "footer", id |-> CHOOSE j \in JobIds : j # global_id]

\* getFooter(): the elapsed time, the resource usage and the job identifier
getFooter == [kind |-> "footer", id |-> global_id]

\* global_options.loglevel >= 1
LogEnabled(opts) == opts["loglevel"].tag \in {"int", "bool"} /\ opts["loglevel"].i >= 1

-----------------------------------------------------------------------------
(* MultiLineFormatter.  A log record has its message, its level name and    *)
(* the time text the base formatter prints; the strings are sequences of    *)
(* characters here.                                                         *)

\* s.startswith(p)
startswith(s, p) == Len(s) >= Len(p) /\ SubSeq(s, 1, Len(p)) = p

\* the first position from k on at which sub occurs in s, 0 if there is none
Find(s, sub, k) ==
    LET at == {i \in k..(Len(s) - Len(sub) + 1) : SubSeq(s, i, i + Len(sub) - 1) = sub}
    IN  IF at = {} THEN 0 ELSE CHOOSE i \in at : \A j \in at : i <= j

RECURSIVE str_split(_, _)
\* s.split(sep) for a non-empty sep: the pieces between its occurrences, found
\* from left to right
str_split(s, sep) ==
    LET i == Find(s, sep, 1)
    IN  IF i = 0 THEN << s >>
        ELSE << SubSeq(s, 1, i - 1) >> \o str_split(SubSeq(s, i + Len(sep), Len(s)), sep)

RECURSIVE replace(_, _, _)
\* s.replace(c, new) for the single character c
replace(s, c, new) ==
    IF s = << >> THEN << >>
    ELSE (IF Head(s) = c THEN new ELSE << Head(s) >>) \o replace(Tail(s), c, new)

\* ' ' * n
Spaces(n) == [k \in 1..n |-> " "]

\* the two formats of Start, up to %(message)s
FormatHead(fmt, record) ==
    (IF fmt = "comment" THEN << "#", " " >> ELSE << >>)
    \o record.asctime \o << " " >> \o record.levelname \o << " " >>

\* logging.Formatter.format(record) for a record without exception information
Formatter_format(fmt, record) ==
    [status |-> "ok", s |-> FormatHead(fmt, record) \o record.message]

\* MultiLineFormatter.format(record): unpacking the split into header and footer
\* raises ValueError unless the split gives two pieces
MultiLineFormatter_format(fmt, record) ==
    LET s == Formatter_format(fmt, record).s
        prefix == IF startswith(s, << "#" >>) THEN << "#" >> ELSE << >>
        pieces == str_split(s, record.message)
        header == pieces[1]
    IN  IF record.message = << >> THEN [status |-> "ok", s |-> s]
        ELSE IF Len(pieces) # 2 THEN [status |-> "ValueError", s |-> << >>]
        ELSE [status |-> "ok",
              s |-> prefix \o replace(s, "\n", << "\n" >> \o prefix \o Spaces(Len(header)))]

-----------------------------------------------------------------------------
(* Start *)

MaxCycles == 2

\* Start parsing argv with the program name left in
ArgsOf_whole(argv) == argv

\* argv[1:], what Start hands to parse_args
ArgsOf(argv) == Tail(argv)

\* the header written at any loglevel
HeaderWrites_always(opts) ==
    << Entry(opts["stdlog"], "header", getHeader.id),
       Entry(opts["stdlog"], "params", getParams.id) >>

\* the header and the option dump Start writes to options.stdlog
HeaderWrites(opts) ==
    IF LogEnabled(opts)
    THEN << Entry(opts["stdlog"], "header", getHeader.id),
            Entry(opts["stdlog"], "params", getParams.id) >>
    ELSE << >>

\* ConfigureLogging that takes the streams for the same when they name one path
ConfigureLogging_by_path(root, opts) ==
    LET lvl == IF opts["loglevel"] \in {IntV(0), BoolV(FALSE)} THEN "ERROR"
               ELSE IF opts["loglevel"] \in {IntV(1), BoolV(TRUE)} THEN "INFO"
               ELSE "DEBUG"
        same == /\ opts["stdout"].tag = "file" /\ opts["stdlog"].tag = "file"
                /\ files'[opts["stdout"].i].path = files'[opts["stdlog"].i].path
        format == IF same THEN "comment" ELSE "plain"
    IN  IF root.handlers THEN [root EXCEPT !.format = format]
        ELSE [handlers |-> TRUE, level |-> lvl, stream |-> opts["stdlog"], format |-> format]

\* logging.basicConfig(level, format, stream) and handler.setFormatter(MultiLineFormatter(format))
ConfigureLogging(root, opts) ==
    LET lvl == IF opts["loglevel"] \in {IntV(0), BoolV(FALSE)} THEN "ERROR"
               ELSE IF opts["loglevel"] \in {IntV(1), BoolV(TRUE)} THEN "INFO"
               ELSE "DEBUG"
        format == IF opts["stdout"] = opts["stdlog"] THEN "comment" ELSE "plain"
    IN  IF root.handlers THEN [root EXCEPT !.format = format]
        ELSE [handlers |-> TRUE, level |-> lvl, stream |-> opts["stdlog"], format |-> format]

\* what Start does once parse_args has returned values and args
StartParsed(values, args) ==
    LET st == ResolveStreams(values, files, add_pipe_options)
        werr == IF LogEnabled(st.opts) THEN WriteError(st.files, st.opts["stdlog"]) ELSE ""
    IN  /\ global_options' = st.opts
        /\ global_args' = args
        /\ files' = st.files
        /\ random_seeded' = IF values["random_seed"].tag # "None" THEN values["random_seed"]
                            ELSE random_seeded
        /\ IF st.err # ""
           THEN /\ pc' = st.err
                /\ UNCHANGED << written, logging_root >>
           ELSE IF werr # ""
           THEN /\ pc' = werr
                /\ UNCHANGED << written, logging_root >>
           ELSE /\ pc' = "Running"
                /\ written' = written \o HeaderWrites(st.opts)
                /\ logging_root' = ConfigureLogging(logging_root, st.opts)

\* Start(parser, argv, quiet, add_pipe_options): a usage error is parser.error,
\* which ends the process with status 2 before global_options is assigned
Start ==
    /\ pc \in {"NotStarted", "Stopped"}
    /\ cycles < MaxCycles
    /\ cycles' = cycles + 1
    /\ LET parsed == parse_args(LongOpt(add_pipe_options),
                                ParserDefaults(parser_defaults, quiet, add_pipe_options),
                                ArgsOf(sys_argv))
       IN  IF parsed.status # "ok"
           THEN /\ pc' = IF parsed.status = "error" THEN "UsageError" ELSE parsed.status
                /\ UNCHANGED << global_options, global_args, files, written, logging_root,
                                random_seeded >>
           ELSE StartParsed(parsed.values, parsed.args)
    /\ UNCHANGED << sys_argv, quiet, add_pipe_options, parser_defaults, unopenable,
                    global_id, global_benchmark, timeit_rows, equiv, formatted >>

-----------------------------------------------------------------------------
(* The benchmark decorator: adds the seconds a call took to its label *)

MaxBenchmark == 1

benchmark(label, seconds) ==
    /\ pc = "Running"
    /\ (IF label \in DOMAIN global_benchmark THEN global_benchmark[label] ELSE 0) + seconds
          <= MaxBenchmark
    /\ global_benchmark' =
          [l \in DOMAIN global_benchmark \cup {label} |->
              (IF l \in DOMAIN global_benchmark THEN global_benchmark[l] ELSE 0)
              + (IF l = label THEN seconds ELSE 0)]
    /\ UNCHANGED << pc, sys_argv, quiet, add_pipe_options, parser_defaults, unopenable,
                    files, global_options, global_args, global_id, written, logging_root,
                    random_seeded, timeit_rows, cycles, equiv,
                    formatted >>

-----------------------------------------------------------------------------
(* Stop *)

\* the benchmark table and the footer Stop writes to options.stdlog
FooterWrites(opts) ==
    (IF LogEnabled(opts) /\ DOMAIN global_benchmark # {}
     THEN << Entry(opts["stdlog"], "benchmark", "") >> ELSE << >>)
    \o (IF LogEnabled(opts) THEN << Entry(opts["stdlog"], "footer", getFooter.id) >>
        ELSE << >>)

\* Stop closing the output stream only
CloseStreams_stdout_only(opts, fs) ==
    [files |-> IF opts["stdout"] # sys_stdout THEN Close(fs, opts["stdout"]) ELSE fs,
     err |-> ""]

\* "close files" of Stop: the output stream, then the error stream; a field that
\* holds no stream object has no close()
CloseStreams(opts, fs) ==
    LET f1 == IF opts["stdout"] # sys_stdout /\ opts["stdout"].tag = "file"
              THEN Close(fs, opts["stdout"]) ELSE fs
        e1 == opts["stdout"] # sys_stdout /\ opts["stdout"].tag # "file"
        f2 == IF ~e1 /\ opts["stderr"] # sys_stderr /\ opts["stderr"].tag = "file"
              THEN Close(f1, opts["stderr"]) ELSE f1
        e2 == opts["stderr"] # sys_stderr /\ opts["stderr"].tag # "file"
    IN  [files |-> f2, err |-> IF e1 \/ e2 THEN "AttributeError" ELSE ""]

\* the header row of the ledger: the 14 column names Stop joins with tabs
TimeitHeader ==
    << << "name" >>, << "wall" >>, << "user" >>, << "sys" >>, << "cuser" >>, << "csys" >>,
       << "host" >>, << "system" >>, << "release" >>, << "machine" >>, << "start" >>,
       << "end" >>, << "path" >>, << "cmd" >> >>

RECURSIVE join(_, _)
\* sep.join(l)
join(sep, l) ==
    IF l = << >> THEN << >>
    ELSE IF Len(l) = 1 THEN l[1]
    ELSE l[1] \o sep \o join(sep, Tail(l))

\* the cmd field: the script and its quoted arguments under run.py, else sys.argv[0]
TimeitCmd ==
    IF Raw(sys_argv[1]) = << "run.py" >>
    THEN global_args[1]
         \o (IF Len(global_args) > 1
             THEN << " '" >> \o join(<< "' '" >>, Tail(global_args)) \o << "'" >>
             ELSE << >>)
    ELSE Raw(sys_argv[1])

\* the data row of this run: the 14 strings Stop joins with tabs; the times, the
\* host fields and the working directory are whatever the system reports
TimeitResult(name) ==
    << name, << "c_wall" >>, << "uusr" >>, << "usys" >>, << "c_usr" >>, << "c_sys" >>,
       << "host" >>, << "csystem" >>, << "release" >>, << "machine" >>, << "t_start" >>,
       << "t_end" >>, << "cwd" >>, TimeitCmd >>

\* the rows Stop appends to the file options.timeit_file: err is the exception
\* that ends it, rows what was written before
TimeitRows(opts) ==
    LET header == IF Truthy(opts["timeit_header"]) THEN << TimeitHeader >> ELSE << >>
        runpy == Raw(sys_argv[1]) = << "run.py" >>
    IN  IF opts["timeit_file"].tag # "str" \/ opts["timeit_file"].s \in unopenable
        THEN [rows |-> << >>, err |-> "IOError"]
        ELSE IF runpy /\ global_args = << >> THEN [rows |-> header, err |-> "IndexError"]
        ELSE IF opts["timeit_name"].tag # "str" THEN [rows |-> header, err |-> "TypeError"]
        ELSE [rows |-> Append(header, TimeitResult(opts["timeit_name"].s)), err |-> ""]

\* the ledger opened for writing: the rows replace the content
AppendRows_truncate(ledger, path, rows) ==
    [p \in DOMAIN ledger \cup {path} |-> IF p = path THEN rows ELSE ledger[p]]

\* open(path, "a") and write
AppendRows(ledger, path, rows) ==
    [p \in DOMAIN ledger \cup {path} |->
        IF p = path THEN (IF p \in DOMAIN ledger THEN ledger[p] ELSE << >>) \o rows
        ELSE ledger[p]]

Stop ==
    /\ pc = "Running"
    /\ LET opts == global_options
           werr == IF LogEnabled(opts) THEN WriteError(files, opts["stdlog"]) ELSE ""
           closed == CloseStreams(opts, files)
           timeit == TimeitRows(opts)
       IN  IF werr # ""
           THEN /\ pc' = "StopError"
                /\ UNCHANGED << written, files, timeit_rows >>
           ELSE /\ written' = written \o FooterWrites(opts)
                /\ files' = closed.files
                /\ IF closed.err # ""
                   THEN pc' = "StopError" /\ UNCHANGED timeit_rows
                   ELSE IF ~Truthy(opts["timeit_file"])
                   THEN pc' = "Stopped" /\ UNCHANGED timeit_rows
                   ELSE /\ pc' = IF timeit.err # "" THEN "StopError" ELSE "Stopped"
                        /\ timeit_rows' =
                              IF timeit.err = "IOError" THEN timeit_rows
                              ELSE AppendRows(timeit_rows, opts["timeit_file"].s, timeit.rows)
    /\ UNCHANGED << sys_argv, quiet, add_pipe_options, parser_defaults, unopenable,
                    global_options, global_args, global_id, global_benchmark, logging_root,
                    random_seeded, cycles, equiv, formatted >>

-----------------------------------------------------------------------------
(* The scripts: command lines, parser and arguments of Start *)

Prog == Plain(<< "prog" >>)

\* a flag left out, or given with one of the texts
Pieces(flag, texts) == {<< >>} \cup {<< Opt(flag, x) >> : x \in texts}

\* every combination of the stream options and --verbose; the paths are a and b
StreamArgvs ==
    { << Prog >> \o v \o o \o e \o l \o t \o i :
        v \in Pieces("--verbose", {<< "0" >>, << "2" >>}),
        o \in Pieces("--stdout", {<< "a" >>, << "b" >>}),
        e \in Pieces("--error", {<< "a" >>, << "b" >>, << "stderr" >>}),
        l \in Pieces("--log", {<< "a" >>, << "b" >>}),
        t \in {<< >>, << Flag("--log2stderr") >>},
        i \in Pieces("--stdin", {<< "a" >>, << "b" >>}) }

\* the states of the file system: b is a path open() may fail on
Filesystems == {{}, {<< "b" >>}}

\* class DefaultOptions: global_options before Start assigns it
DefaultOptions ==
    [d \in {"stdlog", "stdout", "stderr", "stdin", "loglevel", "timeit_file"} |->
        CASE d = "stdlog" -> sys_stdout
          [] d = "stdout" -> sys_stdout
          [] d = "stderr" -> sys_stderr
          [] d = "stdin" -> sys_stdin
          [] d = "loglevel" -> IntV(2)
          [] OTHER -> None]

MaxArgs == 3

MaxLen == 4

\* the sequences over S of length at most n
SeqsUpTo(S, n) == UNION {[1..k -> S] : k \in 0..n}

\* elements of command lines that exercise the parser: good and bad values, an
\* unknown flag, a flag whose value is missing when it comes last, positionals
ParseTokens ==
    { Opt("--verbose", << "2" >>), Opt("--verbose", << "x" >>),
      Opt("--timeit-name", << "x" >>), Opt("--n", << "1", ",", "x" >>),
      Opt("--stdout", << "a" >>), Flag("--bogus"), Flag("--timeit"),
      Plain(<< "input.txt" >>), Plain(<< "b.txt" >>) }

\* the raw values given to one option
RawValues == SeqsUpTo({"a", "b", "1", ","}, MaxLen) \cup {<< "None" >>}

ParseArgvs ==
    {<< Prog >> \o s : s \in SeqsUpTo(ParseTokens, MaxArgs)}
    \cup {<< Prog, Opt(f, raw) >> :
            f \in {"--method", "--n", "--timeit-name", "--verbose"}, raw \in RawValues}

InitLifecycle(argvs, quiets, pipes, filesystems) ==
    /\ pc = "NotStarted"
    /\ sys_argv \in argvs
    /\ quiet \in quiets
    /\ add_pipe_options \in pipes
    /\ parser_defaults = ScriptDefaults
    /\ unopenable \in filesystems
    /\ files = ProcessStreams
    /\ global_options = DefaultOptions
    /\ global_args = << >>
    /\ global_id \in JobIds
    /\ global_benchmark = << >>
    /\ written = << >>
    /\ logging_root = [handlers |-> FALSE, level |-> "WARNING", stream |-> None,
                       format |-> ""]
    /\ random_seeded = None
    /\ timeit_rows = << >>
    /\ cycles = 0

InitOf(argvs, quiets, pipes, filesystems) ==
    /\ InitLifecycle(argvs, quiets, pipes, filesystems)
    /\ equiv = << >>
    /\ formatted = << >>

Init == InitOf(StreamArgvs, BOOLEAN, BOOLEAN, Filesystems)

Next ==
    \/ Start
    \/ \E label \in {"f"} : benchmark(label, 1)
    \/ Stop

Spec == Init /\ [][Next]_vars

InitParse == InitOf(ParseArgvs, {FALSE}, BOOLEAN, {{}})

SpecParse == InitParse /\ [][Next]_vars

\* the state before the first Start of a script
InitScript(argvs, quiets, pipes, filesystems, defaults, ledgers) ==
    /\ pc = "NotStarted"
    /\ sys_argv \in argvs
    /\ quiet \in quiets
    /\ add_pipe_options \in pipes
    /\ parser_defaults \in defaults
    /\ unopenable \in filesystems
    /\ files = ProcessStreams
    /\ global_options = DefaultOptions
    /\ global_args = << >>
    /\ global_id \in JobIds
    /\ global_benchmark = << >>
    /\ written = << >>
    /\ logging_root = [handlers |-> FALSE, level |-> "WARNING", stream |-> None,
                       format |-> ""]
    /\ random_seeded = None
    /\ timeit_rows \in ledgers
    /\ cycles = 0
    /\ equiv = << >>
    /\ formatted = << >>

\* command lines with the timing options, for a script run directly and under run.py
TimeitArgvs ==
    { << p >> \o t \o h \o n \o v \o a :
        p \in {Prog, Plain(<< "run.py" >>)},
        t \in Pieces("--timeit", {<< "f" >>, << "g" >>}),
        h \in {<< >>, << Flag("--timeit-header") >>},
        n \in Pieces("--timeit-name", {<< "x" >>}),
        v \in Pieces("--verbose", {<< "0" >>}),
        a \in {<< >>, << Plain(<< "script.py" >>) >>,
               << Plain(<< "script.py" >>), Plain(<< "input.txt" >>) >>} }

\* the ledger files before the script runs: none, or f with one line in it
Ledgers == {<< >>, [p \in {<< "f" >>} |-> << << << "old" >> >> >>]}

InitTimeit == InitScript(TimeitArgvs, {FALSE}, {TRUE}, {{}, {<< "g" >>}}, {ScriptDefaults},
                         Ledgers)

SpecTimeit == InitTimeit /\ [][Next]_vars

\* a default the caller left unset, or set to one of the values
Default(d, values) == {EmptyMap} \cup {[k \in {d} |-> v] : v \in values}

\* the defaults of the caller's parser: those add_option leaves for the script's
\* options, and the caller's set_defaults for names Start also sets
CallerDefaults ==
    { ScriptDefaults @@ l @@ n @@ r @@ o @@ g @@ e :
        l \in Default("loglevel", {IntV(0), IntV(3)}),
        n \in Default("timeit_name", {Str(<< "x" >>), None}),
        r \in Default("random_seed", {IntV(7)}),
        o \in Default("stdout", {Str(<< "a" >>), sys_stderr}),
        g \in Default("stdlog", {Str(<< "a" >>)}),
        e \in Default("log2stderr", {BoolV(TRUE), BoolV(FALSE)}) }

\* command lines that give some of these options and leave out the others
DefaultsArgvs ==
    { << Prog >> \o v \o n \o o :
        v \in Pieces("--verbose", {<< "2" >>}),
        n \in Pieces("--timeit-name", {<< "y" >>}),
        o \in Pieces("--stdout", {<< "b" >>}) }

InitDefaults == InitScript(DefaultsArgvs, BOOLEAN, BOOLEAN, {{}}, CallerDefaults, {<< >>})

SpecDefaults == InitDefaults /\ [][Next]_vars

-----------------------------------------------------------------------------
(* The spellings of one token list for an append option: the tokens joined   *)
(* by commas in one occurrence, one occurrence per token, and the mixtures.  *)
(* cuts holds the positions after which an occurrence ends.                  *)

MaxToks == 3

\* the tokens for the string option and for the integer option
TokensFor(f) ==
    IF f = "--method" THEN {<< "a" >>, << "b" >>, << "a", "b" >>, << "None" >>}
    ELSE {<< "1" >>, << "2" >>, << "1", "0" >>, << "x" >>}

RECURSIVE Spell(_, _, _, _, _)
\* the occurrences of f that spell toks[k..] after the unfinished occurrence cur
Spell(f, toks, cuts, k, cur) ==
    IF k > Len(toks) THEN << >>
    ELSE LET text == IF cur = << >> THEN toks[k] ELSE cur \o << "," >> \o toks[k]
         IN  IF k \in cuts \/ k = Len(toks)
             THEN << Opt(f, text) >> \o Spell(f, toks, cuts, k + 1, << >>)
             ELSE Spell(f, toks, cuts, k + 1, text)

NotParsed == [status |-> "none", value |-> None]

\* parse_args of the spelling, for a parser set up by Start: its status and the
\* option's list
ParseSpelling(f, toks, cuts) ==
    LET r == parse_args(LongOpt(TRUE), ParserDefaults(ScriptDefaults, FALSE, TRUE),
                        Spell(f, toks, cuts, 1, << >>))
    IN  [status |-> r.status,
         value |-> IF r.status = "ok" THEN r.values[LongOpt(TRUE)[f].dest] ELSE None]

InitEquiv ==
    /\ InitLifecycle({<< Prog >>}, {FALSE}, {TRUE}, {{}})
    /\ formatted = << >>
    /\ \E f \in {"--method", "--n"} :
          \E toks \in SeqsUpTo(TokensFor(f), MaxToks) \ {<< >>} :
              equiv = [opt |-> f, toks |-> toks, joined |-> NotParsed,
                       separate |-> NotParsed, mixed |-> NotParsed]

Unchanged_lifecycle ==
    UNCHANGED << pc, sys_argv, quiet, add_pipe_options, parser_defaults, unopenable, files,
                 global_options, global_args, global_id, global_benchmark, written,
                 logging_root, random_seeded, timeit_rows, cycles >>

ParseJoined ==
    /\ equiv.joined = NotParsed
    /\ equiv' = [equiv EXCEPT !.joined = ParseSpelling(equiv.opt, equiv.toks, {})]
    /\ Unchanged_lifecycle
    /\ UNCHANGED formatted

ParseSeparate ==
    /\ equiv.separate = NotParsed
    /\ equiv' = [equiv EXCEPT
                    !.separate = ParseSpelling(equiv.opt, equiv.toks, 1..Len(equiv.toks))]
    /\ Unchanged_lifecycle
    /\ UNCHANGED formatted

ParseMixed(cuts) ==
    /\ equiv.mixed = NotParsed
    /\ equiv' = [equiv EXCEPT !.mixed = ParseSpelling(equiv.opt, equiv.toks, cuts)]
    /\ Unchanged_lifecycle
    /\ UNCHANGED formatted

NextEquiv ==
    \/ ParseJoined
    \/ ParseSeparate
    \/ \E cuts \in SUBSET (1..(Len(equiv.toks) - 1)) : ParseMixed(cuts)

SpecEquiv == InitEquiv /\ [][NextEquiv]_vars

-----------------------------------------------------------------------------
(* The log records handed to the formatters *)

MaxMessage == 3

\* messages of up to MaxMessage characters: a letter, a letter of the level
\* name, a line break
Messages == SeqsUpTo({"a", "O", "\n"}, MaxMessage)

Records ==
    [message : Messages, levelname : {<< "I", "N", "F", "O" >>},
     asctime : {<< "1", "2", ":", "0", "0" >>}]

NotFormatted == [status |-> "none", s |-> << >>]

InitFormat ==
    /\ InitLifecycle({<< Prog >>}, {FALSE}, {TRUE}, {{}})
    /\ equiv = << >>
    /\ \E record \in Records, fmt \in {"comment", "plain"} :
          formatted = [record |-> record, fmt |-> fmt, base |-> NotFormatted,
                       multi |-> NotFormatted]

\* the record formatted by logging.Formatter
FormatBase ==
    /\ formatted.base = NotFormatted
    /\ formatted' = [formatted EXCEPT !.base = Formatter_format(formatted.fmt,
                                                                formatted.record)]
    /\ Unchanged_lifecycle
    /\ UNCHANGED equiv

\* the record formatted by MultiLineFormatter
FormatMultiLine ==
    /\ formatted.multi = NotFormatted
    /\ formatted' = [formatted EXCEPT !.multi = MultiLineFormatter_format(formatted.fmt,
                                                                          formatted.record)]
    /\ Unchanged_lifecycle
    /\ UNCHANGED equiv

NextFormat == FormatBase \/ FormatMultiLine

SpecFormat == InitFormat /\ [][NextFormat]_vars

\* C1: the one-occurrence spelling --opt=t1,...,tn, the n-occurrence spelling
\* --opt=t1 ... --opt=tn and every mixture give the same list
C1_CommaListEquivalent ==
    \A x, y \in {equiv.joined, equiv.separate, equiv.mixed} :
        (x # NotParsed /\ y # NotParsed) =>
            /\ x = y
            /\ equiv.opt = "--method" =>
                  /\ x.status = "ok"
                  /\ x.value = List([k \in 1..Len(equiv.toks) |-> Str(equiv.toks[k])])

C1_Witness ==
    /\ equiv.toks = << << "a" >>, << "b" >>, << "a" >> >>
    /\ equiv.joined = equiv.separate
    /\ equiv.mixed = equiv.joined
    /\ equiv.joined.status = "ok"
    /\ Len(equiv.joined.value.l) = 3

-----------------------------------------------------------------------------
(* Properties of the lifecycle, under Spec *)

\* the streams Start opened: the process streams come first in files
Opened == 4..Len(files)

\* Start has returned normally in every cycle so far
Started == pc \in {"Running", "Stopped", "StopError"}

Kinds(kind) == {k \in 1..Len(written) : written[k].kind = kind}

\* C4: after Stop has returned, the stream in options.stdlog is still open,
\* whatever stream options were given
C4_LogStreamOpenAfterStop ==
    pc = "Stopped" =>
        /\ global_options["stdlog"].tag = "file"
        /\ files[global_options["stdlog"].i].open

\* C5: every header and every footer written in the process carries the one job
\* identifier, and no step reassigns the identifier
C5_JobIdStable ==
    /\ [](\A k \in Kinds("header") \cup Kinds("footer") : written[k].id = global_id)
    /\ [][global_id' = global_id]_vars

C5_Witness ==
    /\ pc = "Stopped"
    /\ cycles = 2
    /\ Cardinality(Kinds("header")) = 2
    /\ Cardinality(Kinds("footer")) = 2

\* C6: at loglevel 0 neither Start nor Stop writes a header, option dump,
\* benchmark table or footer; at loglevel >= 1 every Start writes the header
\* followed by the option dump and every Stop the footer, once each, to the
\* log stream, the header before the footer
C6_HeaderFooterByLoglevel ==
    Started =>
        IF global_options["loglevel"].i = 0 THEN written = << >>
        ELSE IF global_options["loglevel"].i >= 1
        THEN /\ Cardinality(Kinds("header")) = cycles
             /\ Cardinality(Kinds("params")) = cycles
             /\ Cardinality(Kinds("footer")) = IF pc = "Running" THEN cycles - 1 ELSE cycles
             /\ \A k \in Kinds("header") :
                   /\ k + 1 \in Kinds("params")
                   /\ k = 1 \/ k - 1 \in Kinds("footer")
             /\ \A k \in Kinds("params") : k - 1 \in Kinds("header")
             /\ \A k \in Kinds("footer") : k = Len(written) \/ k + 1 \in Kinds("header")
             /\ \A k \in Kinds("benchmark") : k + 1 \in Kinds("footer")
             /\ written[Len(written)].stream = global_options["stdlog"].i
        ELSE TRUE

C6_Witness ==
    /\ pc = "Stopped"
    /\ global_options["loglevel"] = IntV(2)
    /\ DOMAIN global_benchmark # {}
    /\ Cardinality(Kinds("footer")) = 1
    /\ Cardinality(Kinds("benchmark")) = 1

\* C9 as claimed: after Stop no stream that Start opened for --stdin, --stdout
\* or --error, other than the log stream, is still open
C9_OpenedStreamsClosed ==
    pc = "Stopped" =>
        \A k \in Opened :
            (files[k].mode \in {"r", "w"} /\ File(k) # global_options["stdlog"])
                => ~files[k].open

\* C9 amended: after Stop every stream that Start opened for --stdout or
\* --error is closed, and every stream opened for --stdin is still open
C9_OutputStreamsClosed ==
    pc \in {"Stopped", "StopError"} =>
        \A k \in Opened :
            /\ files[k].mode = "w" => ~files[k].open
            /\ files[k].mode = "r" => files[k].open

C9_Witness ==
    /\ pc = "Stopped"
    /\ \E o, e, i \in Opened :
          /\ global_options["stdout"] = File(o) /\ ~files[o].open
          /\ global_options["stderr"] = File(e) /\ ~files[e].open /\ e # o
          /\ global_options["stdin"] = File(i) /\ files[i].open

\* a stream option of the command line names a path that cannot be opened
NamesUnopenable ==
    \E k \in 2..Len(sys_argv) :
        /\ sys_argv[k].flag \in {"--stdout", "--error", "--log", "--stdin"}
        /\ sys_argv[k].text \in unopenable

\* C10: when a declared stream cannot be opened, Start ends with the I/O error:
\* it returns nothing, has written no header or option dump and has not
\* configured logging
C10_OpenFailureAborts ==
    (cycles >= 1 /\ add_pipe_options /\ NamesUnopenable) =>
        /\ pc = "IOError"
        /\ written = << >>
        /\ ~logging_root.handlers

C10_Witness ==
    /\ pc = "IOError"
    /\ Len(files) = 4
    /\ global_options["loglevel"] = IntV(2)
    /\ global_options["stdout"] = File(4)
    /\ global_options["stderr"] = Str(<< "b" >>)

StreamFlags == {"--stdin", "--log", "--error", "--stdout", "--log2stderr"}

\* argv names no stream option
NoStreamOption == \A k \in 2..Len(sys_argv) : sys_argv[k].flag \notin StreamFlags

\* C11: with add_pipe_options true and with add_pipe_options false, for a parser
\* without stream defaults and a command line without stream options, Start
\* returns with stdin, stdout and stderr the process streams and stdlog the
\* process standard output
C11_DefaultStreams ==
    (cycles >= 1 /\ NoStreamOption /\ parser_defaults = ScriptDefaults) =>
        /\ Started
        /\ global_options["stdin"] = sys_stdin
        /\ global_options["stdout"] = sys_stdout
        /\ global_options["stderr"] = sys_stderr
        /\ global_options["stdlog"] = sys_stdout

\* argv gives the flag f; the command lines of Spec write every value as --flag=value
HasFlag(f) == \E k \in 2..Len(sys_argv) : sys_argv[k].flag = f

\* the stream v is a file Start opened for the path given with flag f, in the mode
OpenedFor(v, f, mode) ==
    /\ v.tag = "file"
    /\ v.i \in Opened
    /\ files[v.i].mode = mode
    /\ \E k \in 2..Len(sys_argv) : sys_argv[k].flag = f /\ sys_argv[k].text = files[v.i].path

\* C12: after Start with the pipe options, stdlog is the stream object in stderr
\* (the file opened for --error, else the process error stream) when --log2stderr
\* is given without --log; the file opened for appending on the --log path when
\* --log is given; the process standard output when neither is given
C12_LogStreamResolution ==
    (Started /\ add_pipe_options /\ parser_defaults = ScriptDefaults) =>
        LET stdlog == global_options["stdlog"]
        IN  /\ (HasFlag("--log2stderr") /\ ~HasFlag("--log")) =>
                  /\ stdlog = global_options["stderr"]
                  /\ IF HasFlag("--error") THEN OpenedFor(stdlog, "--error", "w")
                     ELSE stdlog = sys_stderr
            /\ HasFlag("--log") => OpenedFor(stdlog, "--log", "a")
            /\ (~HasFlag("--log2stderr") /\ ~HasFlag("--log")) => stdlog = sys_stdout

\* the fields u and v hold streams onto the same file or process stream
SameUnderlyingStream(u, v) ==
    /\ u.tag = "file" /\ v.tag = "file"
    /\ files[u.i].path = files[v.i].path

\* C13 as claimed: the record format Start installs is comment-prefixed exactly
\* when options.stdlog and options.stdout are the same underlying stream, and
\* plain otherwise, also when --log and --stdout name the same path
C13_CommentFormatIffSameStream ==
    Started =>
        /\ logging_root.handlers
        /\ logging_root.format \in {"comment", "plain"}
        /\ logging_root.format = "comment"
              <=> SameUnderlyingStream(global_options["stdlog"], global_options["stdout"])

\* C13 amended: the record format Start installs is comment-prefixed exactly
\* when options.stdlog and options.stdout hold the same stream object, and plain
\* otherwise: comment-prefixed for the defaults, plain for --log, for --stdout
\* and for --log2stderr, and plain for --log and --stdout on the same path,
\* which are two streams opened separately
C13_CommentFormatIffSameObject ==
    Started =>
        /\ logging_root.handlers
        /\ logging_root.format \in {"comment", "plain"}
        /\ logging_root.format = "comment"
              <=> global_options["stdlog"] = global_options["stdout"]
        /\ parser_defaults = ScriptDefaults =>
              (logging_root.format = "comment"
                  <=> ~(HasFlag("--log") \/ HasFlag("--stdout") \/ HasFlag("--log2stderr")))

C13_Witness ==
    /\ pc = "Running"
    /\ cycles = 2
    /\ HasFlag("--log") /\ HasFlag("--stdout")
    /\ SameUnderlyingStream(global_options["stdlog"], global_options["stdout"])
    /\ global_options["stdlog"] # global_options["stdout"]
    /\ logging_root.format = "plain"

-----------------------------------------------------------------------------
(* Properties of the benchmark ledger, under SpecTimeit *)

\* the content of the ledger file at path p in the ledger files l
Content(l, p) == IF p \in DOMAIN l THEN l[p] ELSE << >>

\* the data rows of rows: the lines of 14 fields that are not the header row
DataRows(rows) == {k \in 1..Len(rows) : Len(rows[k]) = 14 /\ rows[k] # TimeitHeader}

-----------------------------------------------------------------------------
(* Properties of the formatter, under SpecFormat *)

\* the lines of s
Lines(s) == str_split(s, << "\n" >>)

\* C15: for a message of several lines under the comment-prefixed format every
\* line MultiLineFormatter returns begins with "#" and every continuation line
\* is the line of the message after "#" and blanks, as wide as the text before
\* the message on the first line; for a message of one line MultiLineFormatter
\* returns what the base formatter returns
C15_MultiLineFormat ==
    (formatted.multi # NotFormatted /\ formatted.base # NotFormatted) =>
        LET message == Lines(formatted.record.message)
            out == Lines(formatted.multi.s)
            before == Len(out[1]) - Len(message[1])
        IN  /\ (Len(message) > 1 /\ formatted.fmt = "comment") =>
                  /\ formatted.multi.status = "ok"
                  /\ Len(out) = Len(message)
                  /\ \A k \in 1..Len(out) : startswith(out[k], << "#" >>)
                  /\ \A k \in 2..Len(out) :
                        out[k] = << "#" >> \o Spaces(before - 1) \o message[k]
            /\ Len(message) = 1 => formatted.multi = formatted.base

-----------------------------------------------------------------------------
(* Properties of the defaults, under SpecDefaults *)

StreamDests == {"stdin", "stdout", "stderr", "stdlog"}

\* argv gives the option whose dest is d
GivenDest(d) ==
    \E k \in 2..Len(sys_argv) :
        /\ sys_argv[k].flag \in DOMAIN LongOpt(TRUE)
        /\ LongOpt(TRUE)[sys_argv[k].flag].dest = d

\* the stream v is a file Start opened on the path
OpenedOn(v, path) == v.tag = "file" /\ v.i \in Opened /\ files[v.i].path = path

\* C16 as claimed: in the record Start returns, every name the caller gave a
\* default and argv does not give holds the caller's default (for a stream
\* field, the stream opened on the caller's path), the stream fields included;
\* loglevel and timeit_name hold the defaults of Start only when the caller
\* gave them none
C16_CallerDefaultsWin ==
    Started =>
        /\ \A d \in DOMAIN parser_defaults :
              ~GivenDest(d) =>
                 \/ global_options[d] = parser_defaults[d]
                 \/ /\ d \in StreamDests /\ parser_defaults[d].tag = "str"
                    /\ OpenedOn(global_options[d], parser_defaults[d].s)
        /\ \A d \in {"loglevel", "timeit_name"} \ DOMAIN parser_defaults :
              ~GivenDest(d) =>
                 global_options[d] = StartDefaults(quiet, add_pipe_options)[d]

\* C16 amended: as claimed for every name that is no stream field.  With the
\* pipe options a stream field holds the stream opened on the path that is its
\* default, or the process stream that is its default (stdlog the stream of
\* stderr under log2stderr); without the pipe options stdin, stdout and stderr
\* hold the process streams and stdlog the process error or output stream by
\* log2stderr, whatever defaults the caller gave.
C16_CallerDefaultsWinExceptStreams ==
    Started =>
        /\ \A d \in DOMAIN parser_defaults \ StreamDests :
              ~GivenDest(d) => global_options[d] = parser_defaults[d]
        /\ \A d \in {"loglevel", "timeit_name"} \ DOMAIN parser_defaults :
              ~GivenDest(d) =>
                 global_options[d] = StartDefaults(quiet, add_pipe_options)[d]
        /\ add_pipe_options =>
              \A d \in StreamDests :
                 LET default == ParserDefaults(parser_defaults, quiet, TRUE)[d]
                 IN  ~GivenDest(d) =>
                        IF default.tag = "str"
                        THEN OpenedOn(global_options[d], default.s)
                        ELSE /\ default = StartDefaults(quiet, TRUE)[d]
                             /\ global_options[d] =
                                   IF d = "stdlog" /\ Truthy(global_options["log2stderr"])
                                   THEN global_options["stderr"] ELSE default
        /\ ~add_pipe_options =>
              /\ global_options["stdin"] = sys_stdin
              /\ global_options["stdout"] = sys_stdout
              /\ global_options["stderr"] = sys_stderr
              /\ global_options["stdlog"] =
                    IF Truthy(global_options["log2stderr"]) THEN sys_stderr ELSE sys_stdout

C16_Witness ==
    /\ pc = "Running"
    /\ ~add_pipe_options
    /\ sys_argv = << Prog >>
    /\ "stdout" \in DOMAIN parser_defaults /\ parser_defaults["stdout"] = Str(<< "a" >>)
    /\ global_options["stdout"] = sys_stdout
    /\ "timeit_name" \in DOMAIN parser_defaults /\ parser_defaults["timeit_name"] = None
    /\ global_options["timeit_name"] = None
    /\ "random_seed" \in DOMAIN parser_defaults /\ global_options["random_seed"] = IntV(7)
    /\ "loglevel" \in DOMAIN parser_defaults /\ global_options["loglevel"] = IntV(3)

-----------------------------------------------------------------------------
(* Properties of the parser, under SpecParse *)

\* parse_args has been called
Parsed == cycles >= 1

TakesValue(f) ==
    f \in DOMAIN LongOpt(add_pipe_options) /\ LongOpt(add_pipe_options)[f].type # "none"

RECURSIVE InOptionPosition(_, _)
\* element k of argv is read as an option or a positional, not as the value of
\* the flag before it
InOptionPosition(argv, k) ==
    \/ k = 2
    \/ ~(/\ InOptionPosition(argv, k - 1)
         /\ TakesValue(argv[k - 1].flag)
         /\ ~argv[k - 1].eq)

\* the value of the flag at k
ValueText(argv, k) == IF argv[k].eq THEN argv[k].text ELSE Raw(argv[k + 1])

\* the flag f is given at k and not again after k
LastGiven(argv, f, k) ==
    /\ InOptionPosition(argv, k) /\ argv[k].flag = f
    /\ (argv[k].eq \/ k < Len(argv))
    /\ \A j \in (k + 1)..Len(argv) : ~(InOptionPosition(argv, j) /\ argv[j].flag = f)

Given(argv, f) == \E k \in 2..Len(argv) : InOptionPosition(argv, k) /\ argv[k].flag = f

\* the number of comma-free runs of text
Runs(text) ==
    Cardinality({k \in 1..Len(text) : text[k] # "," /\ (k = 1 \/ text[k - 1] = ",")})

RECURSIVE Concat(_)
Concat(l) == IF l = << >> THEN << >> ELSE Head(l).s \o Concat(Tail(l))

\* C2: a comma list given to an append option adds its non-empty tokens, in
\* order, and no empty string: --opt=a,,b gives [a, b]
C2_EmptyTokensDropped ==
    /\ \A f \in {"--method", "--n"} :
          (/\ Parsed /\ pc # "UsageError"
           /\ Len(sys_argv) = 2
           /\ sys_argv = << Prog, Opt(f, sys_argv[2].text) >>
           /\ \E k \in 1..Len(sys_argv[2].text) : sys_argv[2].text[k] = ",")
          => LET got == global_options[LongOpt(TRUE)[f].dest]
             IN  /\ got.tag = "list"
                 /\ Len(got.l) = Runs(sys_argv[2].text)
                 /\ \A k \in 1..Len(got.l) : got.l[k] # Str(<< >>)
                 /\ f = "--method" =>
                       /\ \A k \in 1..Len(got.l) :
                             got.l[k].tag = "str" /\ \A j \in 1..Len(got.l[k].s) :
                                                         got.l[k].s[j] # ","
                       /\ Concat(got.l) = SelectSeq(sys_argv[2].text, LAMBDA c : c # ",")
    /\ (Parsed /\ sys_argv = << Prog, Opt("--method", << "a", ",", ",", "b" >>) >>)
          => /\ pc # "UsageError"
             /\ global_options["method"] = List(<< Str(<< "a" >>), Str(<< "b" >>) >>)
    /\ \A raw \in {<< "," >>, << ",", "," >>, << ",", "a" >>, << "a", "," >>} :
          (Parsed /\ sys_argv = << Prog, Opt("--method", raw) >>)
          => /\ pc # "UsageError"
             /\ global_options["method"] =
                   List(IF raw \in {<< "," >>, << ",", "," >>} THEN << >>
                        ELSE << Str(<< "a" >>) >>)

C2_Witness ==
    /\ pc = "Running"
    /\ sys_argv = << Prog, Opt("--method", << "a", ",", ",", "b" >>) >>
    /\ global_options["method"] = List(<< Str(<< "a" >>), Str(<< "b" >>) >>)

\* C3: an option given the value "" or "None" keeps its default
C3_EmptyOrNoneKeepsDefault ==
    \A f \in {"--method", "--n", "--timeit-name", "--verbose"} :
        \A raw \in {<< >>, << "None" >>} :
            (Parsed /\ add_pipe_options /\ sys_argv = << Prog, Opt(f, raw) >>)
            => /\ pc \in {"Running", "Stopped"}
               /\ global_options[LongOpt(TRUE)[f].dest] =
                     ParserDefaults(parser_defaults, quiet,
                                    add_pipe_options)[LongOpt(TRUE)[f].dest]

\* the element at k makes parse_args fail: an unknown flag, a flag whose value
\* is missing, or a value (or a token of a comma list) that is no integer
BadElement(argv, k) ==
    LET f == argv[k].flag
        known == f \in DOMAIN LongOpt(add_pipe_options)
        option == LongOpt(add_pipe_options)[f]
        text == ValueText(argv, k)
    IN  /\ InOptionPosition(argv, k)
        /\ f \notin {"", "--"}
        /\ \/ ~known
           \/ TakesValue(f) /\ ~argv[k].eq /\ k = Len(argv)
           \/ /\ known /\ option.type = "int" /\ option.action = "store"
              /\ (argv[k].eq \/ k < Len(argv))
              /\ (text = << >> \/ \E j \in 1..Len(text) : text[j] \notin Digits)
           \/ /\ known /\ option.type = "int" /\ option.action = "append"
              /\ (argv[k].eq \/ k < Len(argv))
              /\ \E j \in 1..Len(text) : text[j] \notin Digits \cup {","}

\* C7: an unknown flag, a missing value or a value that fails conversion (one
\* bad token of a comma list suffices) ends parsing with the usage error: no
\* options are assigned, no header is written and no stream is opened
C7_UsageErrors ==
    (Parsed /\ \E k \in 2..Len(sys_argv) : BadElement(sys_argv, k))
    => /\ pc = "UsageError"
       /\ global_options = DefaultOptions
       /\ global_args = << >>
       /\ written = << >>
       /\ files = ProcessStreams
       /\ ~logging_root.handlers

C7_Witness ==
    /\ pc = "UsageError"
    /\ add_pipe_options
    /\ sys_argv = << Prog, Opt("--stdout", << "a" >>), Opt("--verbose", << "2" >>),
                     Opt("--n", << "1", ",", "x" >>) >>

\* the strings of argv that are neither flags nor values of flags
Positionals(argv) ==
    LET at == SelectSeq([k \in 1..Len(argv) |-> k],
                        LAMBDA k : k >= 2 /\ argv[k].flag = ""
                                          /\ InOptionPosition(argv, k))
    IN  [j \in 1..Len(at) |-> argv[at[j]].text]

DigitSymbols == << "0", "1", "2", "3", "4", "5", "6", "7", "8", "9" >>

\* C8: the program name is not parsed; the flags set their fields, the other
\* strings are the positional arguments in their order, and the fields of
\* absent flags hold the defaults
C8_ParseResult ==
    /\ (Parsed /\ pc # "UsageError") =>
          /\ global_args = Positionals(sys_argv)
          /\ ~Given(sys_argv, "--timeit-name")
                => global_options["timeit_name"] = Str(<< "all" >>)
          /\ ~Given(sys_argv, "--random-seed") => global_options["random_seed"] = None
          /\ ~Given(sys_argv, "--timeit") => global_options["timeit_file"] = None
          /\ ~Given(sys_argv, "--verbose") => global_options["loglevel"] = IntV(1)
          /\ \A k \in 2..Len(sys_argv) :
                /\ LastGiven(sys_argv, "--timeit-name", k)
                      => global_options["timeit_name"] = Str(ValueText(sys_argv, k))
                /\ LastGiven(sys_argv, "--timeit", k)
                      => global_options["timeit_file"] = Str(ValueText(sys_argv, k))
                /\ LastGiven(sys_argv, "--verbose", k)
                      => \A d \in 1..10 :
                            ValueText(sys_argv, k) = << DigitSymbols[d] >>
                               => global_options["loglevel"] = IntV(d - 1)
    /\ (/\ Parsed /\ add_pipe_options
        /\ sys_argv = << Prog, Opt("--verbose", << "2" >>), Opt("--timeit-name", << "x" >>),
                         Plain(<< "input.txt" >>) >>)
       => /\ pc \in {"Running", "Stopped"}
          /\ global_options["loglevel"] = IntV(2)
          /\ global_options["timeit_name"] = Str(<< "x" >>)
          /\ global_args = << << "input.txt" >> >>

C8_Witness ==
    /\ pc = "Running"
    /\ sys_argv = << Prog, Opt("--verbose", << "2" >>), Opt("--timeit-name", << "x" >>),
                     Plain(<< "input.txt" >>) >>
    /\ global_options["loglevel"] = IntV(2)
    /\ global_args = << << "input.txt" >> >>

====
